---- MODULE Spec2Model ----
(***************************************************************************)
(* Model of the offline e-cash demonstration in src/driver.js: the coin    *)
(* string parser, coin acceptance and double-spend arbitration; and of the *)
(* currency converter in src/lab1/Lab1.js.                                 *)
(*                                                                         *)
(* Strings and buffers are sequences of small character codes.  Share      *)
(* bytes are 3-bit values (0..7), closed under XOR; the characters of the  *)
(* canonical coin string use the codes above them.                         *)
(***************************************************************************)
EXTENDS Integers, Sequences, FiniteSets, TLC

(***************************************************************************)
(* Bounds of the model.                                                    *)
(***************************************************************************)
\* COIN_RIS_LENGTH of coin.js: the number k of identity-string pairs of a coin
COIN_RIS_LENGTH == 2
\* longest string handed to parseCoin
MaxStrLen == 6
\* largest byte the one-time pad generator draws (capped at the byte width)
MaxPadByte == 2
MaxGuidLen == 2
\* USD prices are the powers of two up to 2^MaxPriceExp
MaxPriceExp == 1
\* number of UPDATE_USD_PRICE events emitted in a run
MaxUpdates == 2

(***************************************************************************)
(* Character codes.  Bytes 0..7 are the share bytes and the characters an  *)
(* identity string is made of; the other codes occur only in coin strings. *)
(***************************************************************************)
\* the character standing for IDENT_STR
IDENT_CH == 1
\* ':' of the identity string "IDENT:<purchaser>"
COLON == 2
\* the character standing for the purchaser name 'alice'
ALICE_CH == 3
\* the character standing for a second purchaser name
BOB_CH == 4
\* '-' between the fields of the coin string
DASH == 8
\* ',' between the hashes of one list
COMMA == 9
\* the character standing for BANK_STR
BANK_CH == 10
\* first digit character; digit d is DIGIT0 + d
DIGIT0 == 20
\* first character of a hash digest; byte b hashes to HEX0 + b
HEX0 == 40

Byte == 0..7

IDENT_STR == <<IDENT_CH>>
BANK_STR == <<BANK_CH>>

(***************************************************************************)
(* String.prototype.split(sep): the fields between the separators; the     *)
(* empty string splits into one empty field.                               *)
(***************************************************************************)
RECURSIVE SplitAcc(_, _, _, _)
SplitAcc(str, sep, cur, acc) ==
  IF str = <<>> THEN Append(acc, cur)
  ELSE IF Head(str) = sep
       THEN SplitAcc(Tail(str), sep, <<>>, Append(acc, cur))
       ELSE SplitAcc(Tail(str), sep, Append(cur, Head(str)), acc)

split(str, sep) == SplitAcc(str, sep, <<>>, <<>>)

(***************************************************************************)
(* parseCoin(s), driver.js 34-43.  The destructuring takes the first five  *)
(* fields and ignores any further ones; a missing field is undefined, and  *)
(* calling .split on it raises a TypeError.                                *)
(***************************************************************************)
Thrown(msg) == [threw |-> msg, ret |-> <<>>]
Returned(v) == [threw |-> "none", ret |-> v]

\* parseCoin with the tag compared only after both hash lists were split
parseCoin_tagCheckedLast(str) ==
  LET f == split(str, DASH)
      cnst == f[1]
  IN IF Len(f) < 4 THEN Thrown("TypeError")
     ELSE IF Len(f) < 5 THEN Thrown("TypeError")
     ELSE IF cnst # BANK_STR THEN Thrown("Invalid identity string")
     ELSE Returned(<<split(f[4], COMMA), split(f[5], COMMA)>>)

parseCoin(str) ==
  LET f == split(str, DASH)
      cnst == f[1]
  IN IF cnst # BANK_STR THEN Thrown("Invalid identity string")
     ELSE IF Len(f) < 4 THEN Thrown("TypeError")
     ELSE IF Len(f) < 5 THEN Thrown("TypeError")
     ELSE Returned(<<split(f[4], COMMA), split(f[5], COMMA)>>)

(***************************************************************************)
(* JavaScript values that may be undefined.                                *)
(***************************************************************************)
Undefined == [type |-> "undefined"]
Array(v) == [type |-> "array", val |-> v]
Str(v) == [type |-> "string", val |-> v]

(***************************************************************************)
(* Bytes and buffers.                                                      *)
(***************************************************************************)
RECURSIVE BitXor(_, _)
BitXor(a, b) ==
  IF a = 0 THEN b
  ELSE IF b = 0 THEN a
  ELSE (((a % 2) + (b % 2)) % 2) + 2 * BitXor(a \div 2, b \div 2)

\* lines 116-119 with - written for ^
xorBuf_minus(part1, part2) ==
  [j \in 1..Len(part1) |->
     (part1[j] - (IF j <= Len(part2) THEN part2[j] ELSE 0)) % 256]

\* driver.js 116-119: a buffer as long as part1; a byte part2 lacks reads as
\* undefined, which ^ takes as 0
xorBuf(part1, part2) ==
  [j \in 1..Len(part1) |->
     BitXor(part1[j], IF j <= Len(part2) THEN part2[j] ELSE 0) % 256]

\* Buffer.prototype.toString(): every byte of the model is below 128, so it
\* decodes to the character with the same code
bufToString(buf) == [j \in 1..Len(buf) |-> buf[j]]

startsWith(str, prefix) ==
  /\ Len(str) >= Len(prefix)
  /\ SubSeq(str, 1, Len(prefix)) = prefix

RECURSIVE join(_, _)
join(list, sep) ==
  IF list = <<>> THEN <<>>
  ELSE IF Len(list) = 1 THEN list[1]
  ELSE list[1] \o <<sep>> \o join(Tail(list), sep)

RECURSIVE numToString(_)
numToString(n) ==
  IF n < 10 THEN <<DIGIT0 + n>>
  ELSE numToString(n \div 10) \o <<DIGIT0 + (n % 10)>>

(***************************************************************************)
(* utils.js (not in src/): hash and one-time pad.  The hash is a           *)
(* deterministic digest with no collisions among the model's buffers.      *)
(***************************************************************************)
hash(buf) == [j \in 1..Len(buf) |-> HEX0 + buf[j]]

makeOTP(string, pad) == [key |-> pad, ciphertext |-> xorBuf(pad, string)]

(***************************************************************************)
(* blind-signatures (external): a signature names the key that made it and *)
(* the message it covers, and is blinded until unblind removes the factor. *)
(* It is sound only if the message was blinded for the signing key.        *)
(***************************************************************************)
BANK_KEY == [n |-> "bankN", e |-> "bankE"]
OTHER_KEY == [n |-> "otherN", e |-> "otherE"]
N == BANK_KEY.n
E == BANK_KEY.e

blind(message, n, e) == [message |-> message, n |-> n, e |-> e]

sign(blinded, key) ==
  [type |-> "signature", n |-> key.n, e |-> key.e,
   message |-> blinded.message, blinded |-> TRUE,
   sound |-> (blinded.n = key.n /\ blinded.e = key.e)]

unblindSig(signed) ==
  IF signed = Undefined THEN Undefined ELSE [signed EXCEPT !.blinded = FALSE]

verify(unblinded, message, n, e) ==
  /\ unblinded # Undefined
  /\ ~unblinded.blinded
  /\ unblinded.sound
  /\ unblinded.message = message
  /\ unblinded.n = n
  /\ unblinded.e = e

\* driver.js 20-25
signCoin(blindedCoinHash) == sign(blindedCoinHash, BANK_KEY)

(***************************************************************************)
(* class Coin of coin.js (not in src/), from the data model of the         *)
(* specification and from the way driver.js uses it.                       *)
(***************************************************************************)
idString(purchaser) == IDENT_STR \o <<COLON>> \o purchaser

coinString(amount, guid, leftHashes, rightHashes) ==
  BANK_STR \o <<DASH>> \o numToString(amount) \o <<DASH>> \o guid \o <<DASH>>
    \o join(leftHashes, COMMA) \o <<DASH>> \o join(rightHashes, COMMA)

toString(coin) ==
  coinString(coin.amount, coin.guid, coin.leftHashes, coin.rightHashes)

\* new Coin(purchaser, amount, n, e): pads[i] is the random pad of pair i
Coin(purchaser, amount, n, e, guid, pads) ==
  LET otp(i) == makeOTP(idString(purchaser), pads[i])
      leftIdent == [i \in 1..COIN_RIS_LENGTH |-> otp(i).key]
      rightIdent == [i \in 1..COIN_RIS_LENGTH |-> otp(i).ciphertext]
      leftHashes == [i \in 1..COIN_RIS_LENGTH |-> hash(leftIdent[i])]
      rightHashes == [i \in 1..COIN_RIS_LENGTH |-> hash(rightIdent[i])]
  IN [purchaser |-> purchaser, amount |-> amount, guid |-> guid,
      n |-> n, e |-> e,
      leftIdent |-> leftIdent, rightIdent |-> rightIdent,
      leftHashes |-> leftHashes, rightHashes |-> rightHashes,
      blinded |-> blind(coinString(amount, guid, leftHashes, rightHashes), n, e),
      signature |-> Undefined]

unblind(coin) == [coin EXCEPT !.signature = unblindSig(coin.signature)]

getRis(coin, isLeft, i) == IF isLeft THEN coin.leftIdent[i] ELSE coin.rightIdent[i]

(***************************************************************************)
(* The function acceptCoin declared INSIDE acceptCoin, driver.js 55-88.    *)
(* rand is the value utils.randInt(2) returns when it is called.  The      *)
(* result records what was thrown, what was returned, how many times the   *)
(* random side was drawn and the indices whose share was fetched.          *)
(***************************************************************************)
Outcome(threw, ret, draws, parses, inspected) ==
  [threw |-> threw, ret |-> ret, draws |-> draws, parses |-> parses,
   inspected |-> inspected]

RECURSIVE acceptLoop(_, _, _, _, _)
acceptLoop(coin, isLeft, hashes, i, selectedHalf) ==
  IF i > COIN_RIS_LENGTH THEN Outcome("none", Array(selectedHalf), 1, 1, i - 1)
  ELSE LET ris == getRis(coin, isLeft, i)
           h == hash(ris)
           expected == IF i <= Len(hashes) THEN Str(hashes[i]) ELSE Undefined
       IN IF Str(h) # expected
          THEN Outcome("Hash mismatch, coin tampered.", Undefined, 1, 1, i)
          ELSE acceptLoop(coin, isLeft, hashes, i + 1, Append(selectedHalf, ris))

\* the body with the signature check moved below the loop
acceptCoin_nested_verifyLast(coin, rand) ==
  LET valid == verify(coin.signature, toString(coin), coin.n, coin.e)
      isLeft == (rand = 0)
      p == parseCoin(toString(coin))
      looped == acceptLoop(coin, isLeft, IF isLeft THEN p.ret[1] ELSE p.ret[2], 1, <<>>)
  IN IF p.threw # "none" THEN Outcome(p.threw, Undefined, 1, 1, 0)
     ELSE IF looped.threw # "none" THEN looped
     ELSE IF ~valid
       THEN Outcome("Invalid coin signature.", Undefined, 1, 1, looped.inspected)
     ELSE looped

acceptCoin_nested(coin, rand) ==
  LET valid == verify(coin.signature, toString(coin), coin.n, coin.e)
      isLeft == (rand = 0)
      p == parseCoin(toString(coin))
  IN IF ~valid THEN Outcome("Invalid coin signature.", Undefined, 0, 0, 0)
     ELSE IF p.threw # "none" THEN Outcome(p.threw, Undefined, 1, 1, 0)
     ELSE acceptLoop(coin, isLeft, IF isLeft THEN p.ret[1] ELSE p.ret[2], 1, <<>>)

(***************************************************************************)
(* The function acceptCoin the driver calls, driver.js 53-96: its body     *)
(* declares the nested function above and holds no other statement, so a   *)
(* call verifies nothing, draws no side, throws nothing and returns        *)
(* undefined.                                                              *)
(***************************************************************************)
acceptCoin(coin) == Outcome("none", Undefined, 0, 0, 0)

(***************************************************************************)
(* The function determineCheater declared INSIDE determineCheater,         *)
(* driver.js 111-129.  It returns nothing; its outcome is the line it      *)
(* prints.  ris1 and ris2 are arrays of buffers.                           *)
(***************************************************************************)
DoubleSpendLine(creator) ==
  [text |-> "Double spending detected! Coin creator is: ", creator |-> creator]
MerchantLine ==
  [text |-> "RIS identical - Merchant is trying to double report, not the purchaser.",
   creator |-> Undefined]

Arbitrated(threw, console, inspected) ==
  [threw |-> threw, console |-> console, inspected |-> inspected]

RECURSIVE cheaterLoop(_, _, _)
cheaterLoop(ris1, ris2, i) ==
  IF i > COIN_RIS_LENGTH THEN Arbitrated("none", <<MerchantLine>>, i - 1)
  ELSE IF i > Len(ris1) \/ i > Len(ris2) THEN Arbitrated("TypeError", <<>>, i)
  ELSE LET result == bufToString(xorBuf(ris1[i], ris2[i]))
           fields == split(result, COLON)
       IN IF startsWith(result, IDENT_STR)
          THEN Arbitrated("none",
                 <<DoubleSpendLine(IF Len(fields) >= 2 THEN Str(fields[2])
                                   ELSE Undefined)>>, i)
          ELSE cheaterLoop(ris1, ris2, i + 1)

determineCheater_nested(guid, ris1, ris2) == cheaterLoop(ris1, ris2, 1)

(***************************************************************************)
(* The function determineCheater the driver calls, driver.js 109-136: it   *)
(* declares the nested function above and holds no other statement, so a   *)
(* call compares nothing and prints nothing.                               *)
(***************************************************************************)
determineCheater(guid, ris1, ris2) == Arbitrated("none", <<>>, 0)

(***************************************************************************)
(* src/lab1/Lab1.js: the currency converter.  A symbol is a string of the  *)
(* characters below and '-'; the rate table is an object, modelled as the  *)
(* list of its entries in insertion order, which is the order Object.keys  *)
(* lists them in.                                                          *)
(***************************************************************************)
\* the characters standing for 'USD', 'BTC', 'ETH' and 'EOS'
USD_CH == 11
BTC_CH == 12
ETH_CH == 13
EOS_CH == 14
USD == <<USD_CH>>
BTC == <<BTC_CH>>
ETH == <<ETH_CH>>
EOS == <<EOS_CH>>
\* the argument of toFixed
FIXED_DIGITS == 10

\* a template literal `${from}-${to}`
tag(from, to) == from \o <<DASH>> \o to

(***************************************************************************)
(* Numbers are non-negative or negative fractions in lowest terms, or NaN. *)
(***************************************************************************)
RECURSIVE GCD(_, _)
GCD(a, b) == IF b = 0 THEN a ELSE GCD(b, a % b)

Number(n, d) ==
  [type |-> "number", num |-> n \div GCD(n, d), den |-> d \div GCD(n, d)]
NaN == [type |-> "NaN"]

\* !x
Falsy(x) ==
  \/ x = Undefined
  \/ x = NaN
  \/ x = Str(<<>>)
  \/ x.type = "number" /\ x.num = 0

\* the number a value is compared or divided as; the strings of the model
\* hold no digit
ToNumber(x) ==
  IF x.type = "number" THEN x
  ELSE IF x = Str(<<>>) THEN Number(0, 1)
  ELSE NaN

\* x <= 0
AtMostZero(x) == ToNumber(x) # NaN /\ ToNumber(x).num <= 0

parseFloat(x) == IF x.type = "number" THEN x ELSE NaN

\* a / b
Div(a, b) ==
  IF ToNumber(a) = NaN \/ ToNumber(b) = NaN THEN NaN
  ELSE Number(ToNumber(a).num * ToNumber(b).den, ToNumber(a).den * ToNumber(b).num)

\* a * b
Mul(a, b) ==
  IF ToNumber(a) = NaN \/ ToNumber(b) = NaN THEN NaN
  ELSE Number(ToNumber(a).num * ToNumber(b).num, ToNumber(a).den * ToNumber(b).den)

RECURSIVE StripFactor(_, _, _)
StripFactor(d, p, k) ==
  IF k = 0 \/ d % p # 0 THEN d ELSE StripFactor(d \div p, p, k - 1)

\* parseFloat(x.toFixed(10)): a number with at most ten decimals stays as it
\* is, any other is rounded to ten decimals
toFixed10(x) ==
  IF x = NaN THEN NaN
  ELSE IF StripFactor(StripFactor(x.den, 2, FIXED_DIGITS), 5, FIXED_DIGITS) = 1
    THEN x
  ELSE Number((2 * x.num * (10 ^ FIXED_DIGITS) + x.den) \div (2 * x.den),
              10 ^ FIXED_DIGITS)

(***************************************************************************)
(* Objects used as tables.                                                 *)
(***************************************************************************)
Has(obj, key) == \E i \in 1..Len(obj) : obj[i].key = key
Get(obj, key) ==
  IF Has(obj, key) THEN obj[CHOOSE i \in 1..Len(obj) : obj[i].key = key].val
  ELSE Undefined
Put(obj, key, val) ==
  IF Has(obj, key)
    THEN [i \in 1..Len(obj) |-> IF obj[i].key = key
                                  THEN [key |-> key, val |-> val] ELSE obj[i]]
    ELSE Append(obj, [key |-> key, val |-> val])
ObjectKeys(obj) == [i \in 1..Len(obj) |-> obj[i].key]

(***************************************************************************)
(* calculateRates(usdPrices), Lab1.js 16-39.                               *)
(***************************************************************************)
RECURSIVE calcEntries(_, _, _, _)
calcEntries(usdPrices, i, rates, usdMap) ==
  IF i > Len(usdPrices) THEN [rates |-> rates, usdMap |-> usdMap]
  ELSE LET sym == usdPrices[i].asset_id_quote
           usdRate == parseFloat(usdPrices[i].rate)
       IN calcEntries(usdPrices, i + 1,
            Put(Put(rates, tag(USD, sym), usdRate),
                tag(sym, USD), Div(Number(1, 1), usdRate)),
            Put(usdMap, sym, usdRate))

RECURSIVE calcPairs(_, _, _, _)
calcPairs(rates, usdMap, symbols, idx) ==
  IF idx > Len(symbols) * Len(symbols) THEN rates
  ELSE LET from == symbols[((idx - 1) \div Len(symbols)) + 1]
           to == symbols[((idx - 1) % Len(symbols)) + 1]
           r1 == Put(rates, tag(from, to),
                     toFixed10(Div(Get(usdMap, to), Get(usdMap, from))))
           r2 == Put(r1, tag(to, from),
                     toFixed10(Div(Number(1, 1), Get(r1, tag(from, to)))))
       IN calcPairs(IF from # to THEN r2 ELSE rates, usdMap, symbols, idx + 1)

calculateRates(usdPrices) ==
  LET e == calcEntries(usdPrices, 1, <<>>, <<>>)
  IN calcPairs(e.rates, e.usdMap, ObjectKeys(e.usdMap), 1)

(***************************************************************************)
(* The UPDATE_USD_PRICE handler, Lab1.js 57-84: the table it leaves and    *)
(* the last line it logs.                                                  *)
(***************************************************************************)
UsdPrefixed(key) == startsWith(key, tag(USD, <<>>))

RECURSIVE updatePairs(_, _, _)
updatePairs(rates, symbols, idx) ==
  IF idx > Len(symbols) * Len(symbols) THEN rates
  ELSE LET from == symbols[((idx - 1) \div Len(symbols)) + 1]
           to == symbols[((idx - 1) % Len(symbols)) + 1]
           r1 == Put(rates, tag(from, to),
                     toFixed10(Div(Get(rates, tag(USD, to)), Get(rates, tag(USD, from)))))
           r2 == Put(r1, tag(to, from),
                     toFixed10(Div(Get(r1, tag(USD, from)), Get(r1, tag(USD, to)))))
       IN updatePairs(IF /\ from # to
                         /\ ~Falsy(Get(rates, tag(USD, from)))
                         /\ ~Falsy(Get(rates, tag(USD, to)))
                        THEN r2 ELSE rates,
                      symbols, idx + 1)

onUpdate(rates, o) ==
  IF Falsy(o.sym) \/ Falsy(o.usdPrice) \/ AtMostZero(o.usdPrice)
    THEN [rates |-> rates, log |-> "Invalid update parameters."]
  ELSE LET r1 == Put(rates, tag(USD, o.sym.val), parseFloat(o.usdPrice))
           r2 == Put(r1, tag(o.sym.val, USD),
                     toFixed10(Div(Number(1, 1), o.usdPrice)))
           usdKeys == SelectSeq(ObjectKeys(r2), UsdPrefixed)
           symbols == [i \in 1..Len(usdKeys) |-> split(usdKeys[i], DASH)[2]]
       IN [rates |-> updatePairs(r2, symbols, 1),
           log |-> "Rates updated successfully."]

(***************************************************************************)
(* convert(amount, fromUnits, toUnits), Lab1.js 87-94, and the SHOW_PRICE  *)
(* handler, 45-55, which catches what convert throws.                      *)
(***************************************************************************)
convert(rates, amount, fromUnits, toUnits) ==
  LET rate == Get(rates, tag(fromUnits, toUnits))
  IN IF rate = Undefined THEN Thrown("Rate not found")
     ELSE Returned(toFixed10(Mul(rate, amount)))

onShow(rates, o) ==
  LET r == convert(rates, Number(1, 1), o.from, o.to)
  IN IF r.threw = "none" THEN [stdout |-> r.ret, stderr |-> "none"]
     ELSE [stdout |-> Undefined, stderr |-> r.threw]

VARIABLES
  s,         \* parser harness: the string handed to parseCoin
  parsed,    \* parser harness: what parseCoin did with it
  orig,      \* parser harness: the coin whose string is parsed, if any
  pc,        \* driver script: the statement to run next
  coin,      \* driver script: the variable coin (line 138)
  ris1,      \* driver script: the variable ris1 (line 146)
  ris2,      \* driver script: the variable ris2 (line 150)
  console,   \* driver script: the lines printed so far
  tok,       \* acceptance harness: the coin handed to acceptCoin
  tampered,  \* acceptance harness: the share mutated after signing, if any
  acc,       \* acceptance harness: the last call and what it did
  acoin,     \* arbitration harness: the coin both records are about
  recA,      \* arbitration harness: first deposit record
  recB,      \* arbitration harness: second deposit record
  arb,       \* arbitration harness: the last call and what it printed
  rates,     \* converter: this.rates
  lastEvent, \* converter: the last event emitted or call made, and its result
  emitted    \* converter: the number of UPDATE events emitted so far

parseVars == <<s, parsed, orig>>
driverVars == <<pc, coin, ris1, ris2, console>>
acceptVars == <<tok, tampered, acc>>
arbVars == <<acoin, recA, recB, arb>>
convVars == <<rates, lastEvent, emitted>>
vars == <<s, parsed, orig, pc, coin, ris1, ris2, console, tok, tampered, acc,
          acoin, recA, recB, arb, rates, lastEvent, emitted>>

Idle == "idle"
ParseIdle == s = Idle /\ parsed = Idle /\ orig = Idle
DriverIdle == pc = Idle /\ coin = Idle /\ ris1 = Idle /\ ris2 = Idle /\ console = Idle
AcceptIdle == tok = Idle /\ tampered = Idle /\ acc = Idle
ArbIdle == acoin = Idle /\ recA = Idle /\ recB = Idle /\ arb = Idle
ConvIdle == rates = Idle /\ lastEvent = Idle /\ emitted = Idle

(***************************************************************************)
(* Inputs the model draws.                                                 *)
(***************************************************************************)
Min(a, b) == IF a < b THEN a ELSE b
\* the pads makeOTP may return for a string of n bytes: one byte repeated
Pads(n) == {[j \in 1..n |-> b] : b \in 0..Min(MaxPadByte, 7)}
ALICE == <<ALICE_CH>>
BOB == <<BOB_CH>>
Purchasers == {ALICE, BOB}
Guids == {<<HEX0>>, <<HEX0 + 1>>}
PadChoices(purchaser) == [1..COIN_RIS_LENGTH -> Pads(Len(idString(purchaser)))]
\* the face value the driver gives its coin (line 138)
AMOUNT == 20

(***************************************************************************)
(* Spec: the script of driver.js, statement by statement (lines 138-160).  *)
(* The bank key exists before the first statement (line 9).                *)
(***************************************************************************)
BlankLine == [text |-> "", creator |-> Undefined]

Init ==
  /\ pc = "new Coin"
  /\ coin = Undefined
  /\ ris1 = Undefined
  /\ ris2 = Undefined
  /\ console = <<>>
  /\ ParseIdle /\ AcceptIdle /\ ArbIdle /\ ConvIdle

\* line 138: let coin = new Coin('alice', 20, N, E)
NewCoin ==
  /\ pc = "new Coin"
  /\ \E guid \in Guids, pads \in PadChoices(ALICE) :
       coin' = Coin(ALICE, AMOUNT, N, E, guid, pads)
  /\ pc' = "signCoin"
  /\ UNCHANGED <<ris1, ris2, console, parseVars, acceptVars, arbVars, convVars>>

\* the script with line 142 left out: the coin is spent still blinded
SignCoin_skipUnblind ==
  /\ pc = "signCoin"
  /\ coin' = [coin EXCEPT !.signature = signCoin(coin.blinded)]
  /\ pc' = "ris1"
  /\ UNCHANGED <<ris1, ris2, console, parseVars, acceptVars, arbVars, convVars>>

\* line 140: coin.signature = signCoin(coin.blinded)
SignCoin ==
  /\ pc = "signCoin"
  /\ coin' = [coin EXCEPT !.signature = signCoin(coin.blinded)]
  /\ pc' = "unblind"
  /\ UNCHANGED <<ris1, ris2, console, parseVars, acceptVars, arbVars, convVars>>

\* line 142: coin.unblind()
Unblind ==
  /\ pc = "unblind"
  /\ coin' = unblind(coin)
  /\ pc' = "ris1"
  /\ UNCHANGED <<ris1, ris2, console, parseVars, acceptVars, arbVars, convVars>>

\* line 146: let ris1 = acceptCoin(coin)
Accept1 ==
  /\ pc = "ris1"
  /\ LET r == acceptCoin(coin)
     IN /\ ris1' = r.ret
        /\ pc' = IF r.threw = "none" THEN "ris2" ELSE "uncaught"
  /\ UNCHANGED <<coin, ris2, console, parseVars, acceptVars, arbVars, convVars>>

\* line 150: let ris2 = acceptCoin(coin)
Accept2 ==
  /\ pc = "ris2"
  /\ LET r == acceptCoin(coin)
     IN /\ ris2' = r.ret
        /\ pc' = IF r.threw = "none" THEN "determineCheater" ELSE "uncaught"
  /\ UNCHANGED <<coin, ris1, console, parseVars, acceptVars, arbVars, convVars>>

\* line 155: determineCheater(coin.guid, ris1, ris2)
Arbitrate ==
  /\ pc = "determineCheater"
  /\ LET r == determineCheater(coin.guid, ris1, ris2)
     IN /\ console' = console \o r.console
        /\ pc' = IF r.threw = "none" THEN "console.log" ELSE "uncaught"
  /\ UNCHANGED <<coin, ris1, ris2, parseVars, acceptVars, arbVars, convVars>>

\* line 157: console.log()
LogBlank ==
  /\ pc = "console.log"
  /\ console' = Append(console, BlankLine)
  /\ pc' = "replay"
  /\ UNCHANGED <<coin, ris1, ris2, parseVars, acceptVars, arbVars, convVars>>

\* line 160: determineCheater(coin.guid, ris1, ris1)
ArbitrateReplay ==
  /\ pc = "replay"
  /\ LET r == determineCheater(coin.guid, ris1, ris1)
     IN /\ console' = console \o r.console
        /\ pc' = IF r.threw = "none" THEN "done" ELSE "uncaught"
  /\ UNCHANGED <<coin, ris1, ris2, parseVars, acceptVars, arbVars, convVars>>

Next ==
  \/ NewCoin
  \/ SignCoin
  \/ Unblind
  \/ Accept1
  \/ Accept2
  \/ Arbitrate
  \/ LogBlank
  \/ ArbitrateReplay

Spec == Init /\ [][Next]_vars

(***************************************************************************)
(* ParseSpec: parseCoin applied to every string over the characters the    *)
(* parser distinguishes, up to MaxStrLen characters.                       *)
(***************************************************************************)
ParseAlphabet == {BANK_CH, DASH, COMMA, HEX0}
StrInputs == UNION {[1..n -> ParseAlphabet] : n \in 0..MaxStrLen}
Pending == [threw |-> "pending", ret |-> <<>>]

ParseInit ==
  /\ s \in StrInputs
  /\ parsed = Pending
  /\ orig = Undefined
  /\ DriverIdle /\ AcceptIdle /\ ArbIdle /\ ConvIdle

Parse ==
  /\ parsed = Pending
  /\ parsed' = parseCoin(s)
  /\ UNCHANGED <<s, orig, driverVars, acceptVars, arbVars, convVars>>

ParseNext == Parse
ParseSpec == ParseInit /\ [][ParseNext]_vars

(***************************************************************************)
(* Round trip: parseCoin(coin.toString()), line 73, for coins of every     *)
(* id, amount and list length 1..COIN_RIS_LENGTH.                          *)
(***************************************************************************)
GuidInputs == UNION {[1..n -> {HEX0, DASH}] : n \in 1..MaxGuidLen}
Digests == {hash(pad) : pad \in Pads(1)}
HashLists(k) == [1..k -> Digests]

RoundTripInit ==
  /\ \E k \in 1..COIN_RIS_LENGTH :
       orig \in [amount : {1, AMOUNT}, guid : GuidInputs,
                 leftHashes : HashLists(k), rightHashes : HashLists(k)]
  /\ s = Undefined
  /\ parsed = Pending
  /\ DriverIdle /\ AcceptIdle /\ ArbIdle /\ ConvIdle

ParseSerialized ==
  /\ parsed = Pending
  /\ s' = toString(orig)
  /\ parsed' = parseCoin(s')
  /\ UNCHANGED <<orig, driverVars, acceptVars, arbVars, convVars>>

RoundTripNext == ParseSerialized
RoundTripSpec == RoundTripInit /\ [][RoundTripNext]_vars

(***************************************************************************)
(* AcceptSpec: the two functions named acceptCoin applied to the coins a   *)
(* merchant can be handed: built by the Coin constructor for either key    *)
(* pair, signed and unblinded, with at most one share byte changed after   *)
(* signing.                                                                *)
(***************************************************************************)
Keys == {BANK_KEY, OTHER_KEY}
\* face values a signer may have been shown
SignedAmounts == {AMOUNT, 1}

\* a coin made for `key`, carrying the unblinded signature `signer` gave on
\* the blinded string of the same coin with face value amountSigned
SignedCoin(purchaser, key, signer, amountSigned, guid, pads) ==
  LET c == Coin(purchaser, AMOUNT, key.n, key.e, guid, pads)
      shown == Coin(purchaser, amountSigned, key.n, key.e, guid, pads)
  IN unblind([c EXCEPT !.signature = sign(shown.blinded, signer)])

NoTamper == [isLeft |-> FALSE, i |-> 0]
NoCall == [fn |-> "none"]

AcceptInit ==
  /\ \E purchaser \in Purchasers, key \in Keys, signer \in Keys,
        amountSigned \in SignedAmounts :
       \E pads \in PadChoices(purchaser) :
         tok = SignedCoin(purchaser, key, signer, amountSigned, <<HEX0>>, pads)
  /\ tampered = NoTamper
  /\ acc = NoCall
  /\ ParseIdle /\ DriverIdle /\ ArbIdle /\ ConvIdle

\* one byte of one share is changed; the hashes and the signature stay
Tamper ==
  /\ tampered = NoTamper
  /\ acc = NoCall
  /\ \E isLeft \in BOOLEAN, i \in 1..COIN_RIS_LENGTH :
       \E j \in 1..Len(getRis(tok, isLeft, i)), v \in Byte :
         /\ v # getRis(tok, isLeft, i)[j]
         /\ tok' = IF isLeft THEN [tok EXCEPT !.leftIdent[i][j] = v]
                             ELSE [tok EXCEPT !.rightIdent[i][j] = v]
         /\ tampered' = [isLeft |-> isLeft, i |-> i]
  /\ UNCHANGED <<acc, parseVars, driverVars, arbVars, convVars>>

\* acceptCoin(coin), the function of line 53
CallAcceptCoin ==
  /\ acc' = [fn |-> "acceptCoin", out |-> acceptCoin(tok)]
  /\ UNCHANGED <<tok, tampered, parseVars, driverVars, arbVars, convVars>>

\* an acceptance that consumes the coin: it clears the signature it checked
CallAcceptCoinNested_consumes ==
  /\ \E rand \in {0, 1} :
       acc' = [fn |-> "acceptCoin_nested", rand |-> rand,
               out |-> acceptCoin_nested(tok, rand)]
  /\ tok' = [tok EXCEPT !.signature = Undefined]
  /\ UNCHANGED <<tampered, parseVars, driverVars, arbVars, convVars>>

\* acceptCoin(coin), the function of line 55
CallAcceptCoinNested ==
  /\ \E rand \in {0, 1} :
       acc' = [fn |-> "acceptCoin_nested", rand |-> rand,
               out |-> acceptCoin_nested(tok, rand)]
  /\ UNCHANGED <<tok, tampered, parseVars, driverVars, arbVars, convVars>>

AcceptNext ==
  \/ Tamper
  \/ CallAcceptCoin
  \/ CallAcceptCoinNested

AcceptSpec == AcceptInit /\ [][AcceptNext]_vars

(***************************************************************************)
(* ArbSpec: the two functions named determineCheater applied to two deposit *)
(* records of one bank-signed coin.  A record holds what the nested         *)
(* acceptCoin returns for a drawn side; the second record may have one byte *)
(* corrupted on its way to the bank.                                        *)
(***************************************************************************)
NoRecord == [rand |-> -1, ris |-> <<>>, garbled |-> FALSE]
DepositRecord(c, rand) ==
  [rand |-> rand, ris |-> acceptCoin_nested(c, rand).ret.val, garbled |-> FALSE]

ArbInit ==
  /\ \E purchaser \in Purchasers :
       \E pads \in PadChoices(purchaser) :
         acoin = SignedCoin(purchaser, BANK_KEY, BANK_KEY, AMOUNT, <<HEX0>>, pads)
  /\ recA = NoRecord
  /\ recB = NoRecord
  /\ arb = NoCall
  /\ ParseIdle /\ DriverIdle /\ AcceptIdle /\ ConvIdle

DepositA ==
  /\ recA = NoRecord
  /\ \E rand \in {0, 1} : recA' = DepositRecord(acoin, rand)
  /\ UNCHANGED <<acoin, recB, arb, parseVars, driverVars, acceptVars, convVars>>

DepositB ==
  /\ recB = NoRecord
  /\ \E rand \in {0, 1} : recB' = DepositRecord(acoin, rand)
  /\ UNCHANGED <<acoin, recA, arb, parseVars, driverVars, acceptVars, convVars>>

\* one byte of the second record is corrupted before arbitration
Garble ==
  /\ recB # NoRecord
  /\ ~recB.garbled
  /\ arb = NoCall
  /\ \E i \in 1..Len(recB.ris) :
       \E j \in 1..Len(recB.ris[i]), v \in Byte :
         /\ v # recB.ris[i][j]
         /\ recB' = [recB EXCEPT !.ris[i][j] = v, !.garbled = TRUE]
  /\ UNCHANGED <<acoin, recA, arb, parseVars, driverVars, acceptVars, convVars>>

\* determineCheater(guid, ris1, ris2), the function of line 109, with the
\* two records in either order
CallDetermineCheater ==
  /\ recA # NoRecord
  /\ recB # NoRecord
  /\ \E swapped \in BOOLEAN :
       arb' = [fn |-> "determineCheater", swapped |-> swapped,
               out |-> IF swapped
                         THEN determineCheater(acoin.guid, recB.ris, recA.ris)
                         ELSE determineCheater(acoin.guid, recA.ris, recB.ris)]
  /\ UNCHANGED <<acoin, recA, recB, parseVars, driverVars, acceptVars, convVars>>

\* determineCheater(guid, ris1, ris2), the function of line 111, with the
\* two records in either order
CallDetermineCheaterNested ==
  /\ recA # NoRecord
  /\ recB # NoRecord
  /\ \E swapped \in BOOLEAN :
       arb' = [fn |-> "determineCheater_nested", swapped |-> swapped,
               out |-> IF swapped
                         THEN determineCheater_nested(acoin.guid, recB.ris, recA.ris)
                         ELSE determineCheater_nested(acoin.guid, recA.ris, recB.ris)]
  /\ UNCHANGED <<acoin, recA, recB, parseVars, driverVars, acceptVars, convVars>>

ArbNext ==
  \/ DepositA
  \/ DepositB
  \/ Garble
  \/ CallDetermineCheater
  \/ CallDetermineCheaterNested

ArbSpec == ArbInit /\ [][ArbNext]_vars

(***************************************************************************)
(* The converter, Lab1.js 97-120: built from the prices of rates.json,     *)
(* then driven by UPDATE_USD_PRICE and SHOW_PRICE events and by direct     *)
(* calls of convert, in any order.                                         *)
(***************************************************************************)
Prices == {Number(2 ^ k, 1) : k \in 0..MaxPriceExp}
\* a price that is a string without digits
NotNumeric == Str(BTC)
SymInputs == {Undefined, Str(<<>>), Str(BTC), Str(EOS), Str(tag(EOS, BTC))}
PriceInputs == {Undefined, Number(-1, 1), Number(0, 1), NotNumeric} \cup Prices
Units == {BTC, ETH, EOS, tag(EOS, BTC)}
NoEvent == [type |-> "none"]

ConvInit ==
  /\ \E btc \in Prices, eth \in Prices :
       rates = calculateRates(<<[asset_id_quote |-> BTC, rate |-> btc],
                                [asset_id_quote |-> ETH, rate |-> eth]>>)
  /\ lastEvent = NoEvent
  /\ emitted = 0
  /\ ParseIdle /\ DriverIdle /\ AcceptIdle /\ ArbIdle

\* cnv.emit(UPDATE, { sym, usdPrice })
EmitUpdate ==
  /\ emitted < MaxUpdates
  /\ \E sym \in SymInputs, usdPrice \in PriceInputs :
       LET o == [sym |-> sym, usdPrice |-> usdPrice]
           done == onUpdate(rates, o)
       IN /\ rates' = done.rates
          /\ lastEvent' = [type |-> "UPDATE_USD_PRICE", o |-> o, before |-> rates,
                           log |-> done.log]
  /\ emitted' = emitted + 1
  /\ UNCHANGED <<parseVars, driverVars, acceptVars, arbVars>>

\* cnv.emit(SHOW, { from, to })
EmitShow ==
  /\ \E from \in Units, to \in Units :
       LET o == [from |-> from, to |-> to]
       IN lastEvent' = [type |-> "SHOW_PRICE", o |-> o, out |-> onShow(rates, o)]
  /\ UNCHANGED <<rates, emitted, parseVars, driverVars, acceptVars, arbVars>>

\* cnv.convert(amt, from, to), as in test(), lines 103-105
CallConvert ==
  /\ \E from \in Units, to \in Units :
       lastEvent' = [type |-> "convert", from |-> from, to |-> to,
                     out |-> convert(rates, Number(1, 1), from, to)]
  /\ UNCHANGED <<rates, emitted, parseVars, driverVars, acceptVars, arbVars>>

ConvNext ==
  \/ EmitUpdate
  \/ EmitShow
  \/ CallConvert

ConvSpec == ConvInit /\ [][ConvNext]_vars

(***************************************************************************)
(* What the claims speak of.                                               *)
(***************************************************************************)
\* the signature verifies over the coin's string under the bank's public key
BankSigned(c) == verify(c.signature, toString(c), N, E)
\* all k shares of one side of coin c
SideShares(c, isLeft) == [i \in 1..COIN_RIS_LENGTH |-> getRis(c, isLeft, i)]
\* a returned value that is the k shares of a single side of c
IsHalfOf(r, c) ==
  /\ r.type = "array"
  /\ \E isLeft \in BOOLEAN : r.val = SideShares(c, isLeft)
\* the split-secret invariant of the data model
SplitSecretHolds(c) ==
  \A i \in 1..COIN_RIS_LENGTH :
    xorBuf(c.leftIdent[i], c.rightIdent[i]) = idString(c.purchaser)
\* the arbitration printed exactly the line naming this purchaser
SpenderIdentified(out, purchaser) ==
  out.console = <<DoubleSpendLine(Str(purchaser))>>
MerchantDuplicate(out) == out.console = <<MerchantLine>>
\* both records are as the merchants received them
Intact == ~recA.garbled /\ ~recB.garbled
\* no pair of shares XORs to a string beginning with the identity tag
NoTagMatch(a, b) ==
  \A i \in 1..COIN_RIS_LENGTH :
    ~startsWith(bufToString(xorBuf(a[i], b[i])), IDENT_STR)
\* the first field of a string and its number of fields, read off the string
Dashes(str) == {k \in 1..Len(str) : str[k] = DASH}
FirstField(str) ==
  IF Dashes(str) = {} THEN str
  ELSE SubSeq(str, 1, (CHOOSE k \in Dashes(str) : \A m \in Dashes(str) : k <= m) - 1)
FieldCount(str) == Cardinality(Dashes(str)) + 1

(***************************************************************************)
(* C1 (ArbSpec).  Whenever the same signed and unblinded coin was accepted *)
(* twice, each acceptance drawing its own side, arbitration of the two     *)
(* resulting records names the coin's creator; it is never reported as a   *)
(* merchant duplicate.                                                     *)
(***************************************************************************)
C1_DoubleSpendIdentifiesCreator ==
  (arb # NoCall /\ Intact) => SpenderIdentified(arb.out, acoin.purchaser)

(***************************************************************************)
(* C2 (ArbSpec).  For a coin whose shares satisfy the split-secret         *)
(* invariant and two records of it, one of the Left and one of the Right   *)
(* side, arbitration reports exactly the coin's owner.                     *)
(***************************************************************************)
C2_OppositeSidesIdentifyOwner ==
  (arb # NoCall /\ Intact /\ SplitSecretHolds(acoin) /\ recA.rand # recB.rand)
    => SpenderIdentified(arb.out, acoin.purchaser)

\* the same statement about the nested function of line 111 alone
Nested_OppositeSidesIdentifyOwner ==
  (arb # NoCall /\ arb.fn = "determineCheater_nested" /\ Intact
     /\ SplitSecretHolds(acoin) /\ recA.rand # recB.rand)
    => SpenderIdentified(arb.out, acoin.purchaser)

(***************************************************************************)
(* C3 (ArbSpec).  For two records of the same coin that revealed the same  *)
(* side, arbitration reports a merchant duplicate and never names a        *)
(* spender.                                                                *)
(***************************************************************************)
C3_SameSideIsMerchantDuplicate ==
  (arb # NoCall /\ Intact /\ recA.rand = recB.rand) => MerchantDuplicate(arb.out)

\* the same statement about the nested function of line 111 alone
Nested_SameSideIsMerchantDuplicate ==
  (arb # NoCall /\ arb.fn = "determineCheater_nested" /\ Intact
     /\ recA.rand = recB.rand)
    => MerchantDuplicate(arb.out)

(***************************************************************************)
(* C4 (ArbSpec).  When no index XORs to the identity tag and the shares    *)
(* are not pairwise identical, arbitration reports something other than a  *)
(* merchant duplicate; a merchant duplicate is reported only for records   *)
(* of the same side with all k shares identical.                           *)
(***************************************************************************)
C4_NoMatchIsInconclusive ==
  arb # NoCall =>
    /\ MerchantDuplicate(arb.out) => (recA.rand = recB.rand /\ recA.ris = recB.ris)
    /\ (NoTagMatch(recA.ris, recB.ris) /\ recA.ris # recB.ris)
         => (arb.out.console # <<>> /\ ~MerchantDuplicate(arb.out))

\* what the nested function of line 111 does when no index matches the tag:
\* it prints the merchant line, whether or not the shares are identical
Nested_NoMatchIsMerchantLine ==
  (arb # NoCall /\ arb.fn = "determineCheater_nested"
     /\ NoTagMatch(recA.ris, recB.ris))
    => MerchantDuplicate(arb.out)

(***************************************************************************)
(* C5 (AcceptSpec).  Acceptance of a coin whose signature does not verify  *)
(* over the coin's string under the bank's public key fails with the       *)
(* invalid-signature error and returns no record.                          *)
(***************************************************************************)
C5_InvalidSignatureRejected ==
  (acc # NoCall /\ ~BankSigned(tok))
    => (acc.out.threw = "Invalid coin signature." /\ acc.out.ret = Undefined)

\* what the nested function of line 55 does: it rejects exactly the coins
\* whose signature fails under the key the coin itself carries
Nested_VerifiesUnderCoinKey ==
  (acc # NoCall /\ acc.fn = "acceptCoin_nested")
    => (acc.out.threw = "Invalid coin signature."
          <=> ~verify(tok.signature, toString(tok), tok.n, tok.e))

(***************************************************************************)
(* C6 (AcceptSpec).  For a validly signed coin with exactly one share      *)
(* value changed, at any index of either side, while the hashes stay,      *)
(* acceptance fails with the tampered-coin error and returns no record.    *)
(***************************************************************************)
C6_TamperedShareRejected ==
  (acc # NoCall /\ BankSigned(tok) /\ tampered # NoTamper)
    => (acc.out.threw = "Hash mismatch, coin tampered." /\ acc.out.ret = Undefined)

\* what the nested function of line 55 does: it rejects the change when it
\* drew the side the changed share is on
Nested_TamperedDrawnSideRejected ==
  (acc # NoCall /\ acc.fn = "acceptCoin_nested" /\ BankSigned(tok)
     /\ tampered # NoTamper /\ tampered.isLeft = (acc.rand = 0))
    => (acc.out.threw = "Hash mismatch, coin tampered." /\ acc.out.ret = Undefined)

\* and it returns the drawn half when the changed share is on the other side
Nested_TamperedOtherSideAccepted ==
  (acc # NoCall /\ acc.fn = "acceptCoin_nested" /\ BankSigned(tok)
     /\ tampered # NoTamper /\ tampered.isLeft # (acc.rand = 0))
    => (acc.out.threw = "none"
          /\ acc.out.ret = Array(SideShares(tok, acc.rand = 0)))

(***************************************************************************)
(* C7 (Spec).  Every acceptance of the validly signed, untampered coin     *)
(* returns to its caller a record holding all k shares of one side: once   *)
(* line 146 has run, ris1 holds them, and once line 150 has run, so does   *)
(* ris2.                                                                   *)
(***************************************************************************)
C7_AcceptanceReturnsRecord ==
  /\ pc \in {"ris2", "determineCheater", "console.log", "replay", "done"}
       => IsHalfOf(ris1, coin)
  /\ pc \in {"determineCheater", "console.log", "replay", "done"}
       => IsHalfOf(ris2, coin)

\* the nested function of line 55 returns the k shares of one side
Nested_AcceptanceReturnsHalf ==
  (acc # NoCall /\ acc.fn = "acceptCoin_nested" /\ BankSigned(tok)
     /\ tampered = NoTamper)
    => (acc.out.threw = "none" /\ acc.out.ret = Array(SideShares(tok, acc.rand = 0)))

(***************************************************************************)
(* C8 (AcceptSpec).  Within one acceptance of a validly signed coin the    *)
(* side is drawn exactly once, and whatever is returned is the shares of   *)
(* one single side.                                                        *)
(***************************************************************************)
C8_SideDrawnOnce ==
  (acc # NoCall /\ BankSigned(tok))
    => /\ acc.out.draws = 1
       /\ acc.out.ret # Undefined => IsHalfOf(acc.out.ret, tok)

\* the same statement about the nested function of line 55 alone
Nested_SideDrawnOnce ==
  (acc # NoCall /\ acc.fn = "acceptCoin_nested" /\ BankSigned(tok))
    => /\ acc.out.draws = 1
       /\ acc.out.ret # Undefined => IsHalfOf(acc.out.ret, tok)

(***************************************************************************)
(* C9 (ParseSpec).  For every string whose first field is not BANK_STR,    *)
(* whatever the number and content of the other fields, parseCoin throws   *)
(* its invalid-identity-string error and returns no hash lists.            *)
(***************************************************************************)
C9_WrongTagRejected ==
  (parsed # Pending /\ FirstField(s) # BANK_STR)
    => (parsed.threw = "Invalid identity string" /\ parsed.ret = <<>>)

\* a parsed string of five fields with well-formed lists and a wrong tag
C9_Witness ==
  /\ parsed # Pending
  /\ FirstField(s) # BANK_STR
  /\ FieldCount(s) = 5
  /\ parsed.threw = "Invalid identity string"

(***************************************************************************)
(* C10 (ParseSpec).  Parsing a string that does not split on '-' into      *)
(* exactly five fields fails, even when its first field is BANK_STR.       *)
(***************************************************************************)
C10_WrongFieldCountRejected ==
  (parsed # Pending /\ FieldCount(s) # 5) => parsed.threw # "none"

\* what parseCoin does: fewer than five fields fail, further fields are ignored
Parse_TooFewFieldsRejected ==
  (parsed # Pending /\ FieldCount(s) < 5) => parsed.threw # "none"

(***************************************************************************)
(* C11 (ParseSpec).  parseCoin never returns two hash lists whose lengths  *)
(* differ from each other or from k: every string carrying such lists is   *)
(* rejected.                                                               *)
(***************************************************************************)
C11_ListLengthsChecked ==
  (parsed # Pending /\ parsed.threw = "none")
    => /\ Len(parsed.ret[1]) = Len(parsed.ret[2])
       /\ Len(parsed.ret[1]) = COIN_RIS_LENGTH

\* what parseCoin does: it returns whatever the fourth and fifth field hold
Parse_ReturnsFieldsFourAndFive ==
  (parsed # Pending /\ parsed.threw = "none")
    => parsed.ret = <<split(split(s, DASH)[4], COMMA), split(split(s, DASH)[5], COMMA)>>

(***************************************************************************)
(* C12 (RoundTripSpec).  Parsing the serialized string of any coin yields  *)
(* the coin's own leftHashes and rightHashes, element by element.          *)
(***************************************************************************)
C12_RoundTrip ==
  parsed # Pending
    => /\ parsed.threw = "none"
       /\ parsed.ret = <<orig.leftHashes, orig.rightHashes>>

\* what the code does: the round trip holds for ids without the delimiter
RoundTrip_DashFreeId ==
  (parsed # Pending /\ \A j \in 1..Len(orig.guid) : orig.guid[j] # DASH)
    => /\ parsed.threw = "none"
       /\ parsed.ret = <<orig.leftHashes, orig.rightHashes>>

\* and with a delimiter in the id the lists come from the wrong fields
RoundTrip_DashInIdShiftsFields ==
  (parsed # Pending /\ orig.guid = <<HEX0, DASH>>)
    => parsed.ret = <<<< <<>> >>, orig.leftHashes>>

(***************************************************************************)
(* C13 (Spec).  The driver's coin moves through Blinded (created with its  *)
(* blinded digest), Signed, Unblinded, Spent in that order, one stage at a *)
(* time: it is not signed before its blinded digest exists, not unblinded  *)
(* before it is signed, not handed to acceptCoin before it is unblinded;   *)
(* a second acceptance leaves it Spent.                                    *)
(***************************************************************************)
AcceptCalls ==
  IF pc \in {"new Coin", "signCoin", "unblind", "ris1"} THEN 0
  ELSE IF pc = "ris2" THEN 1
  ELSE 2

LifecycleRank ==
  IF coin = Undefined THEN 0                                   \* no coin yet
  ELSE IF AcceptCalls > 0 THEN 4                               \* Spent
  ELSE IF coin.signature = Undefined
    THEN (IF coin.blinded.message = toString(coin) THEN 1      \* Blinded
          ELSE -1)
  ELSE IF coin.signature.blinded THEN 2                        \* Signed
  ELSE 3                                                       \* Unblinded

C13_LifecycleOrder ==
  [][LifecycleRank' = LifecycleRank \/ LifecycleRank' = LifecycleRank + 1]_vars

C13_Witness ==
  /\ pc = "done"
  /\ AcceptCalls = 2
  /\ LifecycleRank = 4
  /\ verify(coin.signature, toString(coin), N, E)

(***************************************************************************)
(* C15 (AcceptSpec).  The signature check comes first: a call whose        *)
(* signature check does not pass has drawn no side, has not parsed the     *)
(* coin's string for commitments and has inspected no share.               *)
(***************************************************************************)
SignatureCheckPasses(c) == verify(c.signature, toString(c), c.n, c.e)

C15_SignatureCheckedFirst ==
  (acc # NoCall /\ ~SignatureCheckPasses(tok))
    => /\ acc.out.draws = 0
       /\ acc.out.parses = 0
       /\ acc.out.inspected = 0
       /\ acc.out.ret = Undefined

\* a coin with a bad signature and a tampered share: only the signature is reported
C15_Witness ==
  /\ acc.fn = "acceptCoin_nested"
  /\ ~SignatureCheckPasses(tok)
  /\ tampered # NoTamper
  /\ tampered.isLeft = (acc.rand = 0)
  /\ acc.out.threw = "Invalid coin signature."
  /\ acc.out.inspected = 0

(***************************************************************************)
(* C16 (AcceptSpec).  Acceptance is fail-fast: a call on a signed coin     *)
(* with a tampered share either finds the selected side intact and returns *)
(* its k shares, or throws "Hash mismatch, coin tampered." at the lowest   *)
(* index of the selected side whose share does not hash to the parsed      *)
(* commitment, having inspected no later index, and returns no record.     *)
(***************************************************************************)
ParsedCommitments(c, isLeft) ==
  LET p == parseCoin(toString(c)) IN IF isLeft THEN p.ret[1] ELSE p.ret[2]

Mismatches(c, isLeft) ==
  {i \in 1..COIN_RIS_LENGTH :
     hash(getRis(c, isLeft, i)) # ParsedCommitments(c, isLeft)[i]}

Lowest(S) == CHOOSE i \in S : \A m \in S : i <= m

FailFastOn(out, c, isLeft) ==
  IF Mismatches(c, isLeft) = {}
    THEN out.threw = "none" /\ out.ret = Array(SideShares(c, isLeft))
    ELSE /\ out.threw = "Hash mismatch, coin tampered."
         /\ out.inspected = Lowest(Mismatches(c, isLeft))
         /\ out.ret = Undefined

C16_FailFast ==
  (acc # NoCall /\ SignatureCheckPasses(tok) /\ tampered # NoTamper)
    => \E isLeft \in BOOLEAN :
         /\ acc.fn = "acceptCoin_nested" => isLeft = (acc.rand = 0)
         /\ FailFastOn(acc.out, tok, isLeft)

\* what the nested body does on the side it drew
Nested_FailFast ==
  (acc.fn = "acceptCoin_nested" /\ SignatureCheckPasses(tok))
    => FailFastOn(acc.out, tok, acc.rand = 0)

(***************************************************************************)
(* C17 (ArbSpec).  Arbitration returns at the lowest index whose XOR       *)
(* matches the identity-tag pattern "<IDENT_STR>:<identity>", names the    *)
(* identity decoded at that index, and inspects no later index.            *)
(***************************************************************************)
XorAt(i) == bufToString(xorBuf(recA.ris[i], recB.ris[i]))

TagIdentity(result) == SubSeq(result, Len(IDENT_STR) + 2, Len(result))

MatchesTag(result) ==
  /\ startsWith(result, IDENT_STR \o <<COLON>>)
  /\ \A j \in 1..Len(TagIdentity(result)) : TagIdentity(result)[j] # COLON

TagIndices == {i \in 1..COIN_RIS_LENGTH : MatchesTag(XorAt(i))}

C17_FirstTagMatchWins ==
  (arb # NoCall /\ TagIndices # {})
    => /\ arb.out.console =
            <<DoubleSpendLine(Str(TagIdentity(XorAt(Lowest(TagIndices)))))>>
       /\ arb.out.inspected = Lowest(TagIndices)

\* what the nested body does: it stops at the lowest index whose XOR merely
\* begins with IDENT_STR and prints the second ':'-field of that string
PrefixIndices == {i \in 1..COIN_RIS_LENGTH : startsWith(XorAt(i), IDENT_STR)}

Nested_FirstPrefixMatchWins ==
  (arb.fn = "determineCheater_nested" /\ PrefixIndices # {})
    => LET fields == split(XorAt(Lowest(PrefixIndices)), COLON)
       IN /\ arb.out.console =
               <<DoubleSpendLine(IF Len(fields) >= 2 THEN Str(fields[2])
                                 ELSE Undefined)>>
          /\ arb.out.inspected = Lowest(PrefixIndices)

(***************************************************************************)
(* C18 (AcceptSpec).  Acceptance leaves the coin as it found it: a call of *)
(* acceptCoin, successful or failed, changes neither the coin's id, amount,*)
(* shares, commitments nor signature, so a later acceptance of the same    *)
(* coin that draws the same side has the same outcome.                     *)
(***************************************************************************)
TokenFields(c) ==
  <<c.guid, c.amount, c.leftIdent, c.rightIdent, c.leftHashes, c.rightHashes,
    c.signature>>

C18_TokenReadOnly ==
  [][ /\ acc' # acc => TokenFields(tok') = TokenFields(tok)
      /\ (/\ acc.fn = "acceptCoin_nested"
          /\ acc'.fn = "acceptCoin_nested"
          /\ acc'.rand = acc.rand) => acc'.out = acc.out
      /\ (acc.fn = "acceptCoin" /\ acc'.fn = "acceptCoin") => acc'.out = acc.out
    ]_vars

\* a failed acceptance of a tampered coin; the coin still carries its signature
C18_Witness ==
  /\ acc.fn = "acceptCoin_nested"
  /\ tampered # NoTamper
  /\ acc.out.threw = "Hash mismatch, coin tampered."
  /\ BankSigned(tok)

(***************************************************************************)
(* C19 (ArbSpec).  Arbitration is symmetric: for two records of the same   *)
(* coin whose shares have equal lengths, determineCheater(guid, A, B) and  *)
(* determineCheater(guid, B, A) print the same line, naming the same       *)
(* identity when one is named.                                             *)
(***************************************************************************)
EqualShareLengths ==
  /\ Len(recA.ris) = Len(recB.ris)
  /\ \A i \in 1..Len(recA.ris) : Len(recA.ris[i]) = Len(recB.ris[i])

C19_ArbitrationSymmetric ==
  [][ (/\ arb # NoCall
       /\ arb' # NoCall
       /\ arb'.fn = arb.fn
       /\ arb'.swapped # arb.swapped
       /\ EqualShareLengths) => arb'.out = arb.out ]_vars

\* the records of a double spend, one of them corrupted, arbitrated B-then-A
C19_Witness ==
  /\ arb.fn = "determineCheater_nested"
  /\ arb.swapped
  /\ recA.rand # recB.rand
  /\ recB.garbled
  /\ EqualShareLengths
  /\ arb.out = determineCheater_nested(acoin.guid, recB.ris, recA.ris)
  /\ SpenderIdentified(arb.out, acoin.purchaser)

(***************************************************************************)
(* C20 (ConvSpec).  An UPDATE_USD_PRICE event with a missing symbol, a     *)
(* missing price or a price <= 0 leaves the rate table as it was; and      *)
(* after any valid updates every two distinct symbols with a USD-<sym>     *)
(* entry have a rate in both directions, so convert between them does not  *)
(* throw.                                                                  *)
(***************************************************************************)
UsdSymbols(tbl) ==
  {SubSeq(tbl[i].key, Len(USD) + 2, Len(tbl[i].key)) :
     i \in {j \in 1..Len(tbl) : UsdPrefixed(tbl[j].key)}}

\* every USD price in the table is a number: no update carried a price
\* that is not one
NumericPrices(tbl) ==
  \A i \in 1..Len(tbl) : UsdPrefixed(tbl[i].key) => tbl[i].val # NaN

InvalidUpdate(o) ==
  \/ o.sym = Undefined \/ o.sym = Str(<<>>)
  \/ o.usdPrice = Undefined
  \/ o.usdPrice.type = "number" /\ o.usdPrice.num <= 0

PairsComplete(tbl) ==
  \A a \in UsdSymbols(tbl), b \in UsdSymbols(tbl) :
    a # b => Has(tbl, tag(a, b)) /\ Has(tbl, tag(b, a))

C20_UpdateKeepsTableComplete ==
  /\ (lastEvent.type = "UPDATE_USD_PRICE" /\ InvalidUpdate(lastEvent.o))
       => rates = lastEvent.before
  /\ NumericPrices(rates) => PairsComplete(rates)
  /\ (/\ NumericPrices(rates)
      /\ lastEvent.type = "convert"
      /\ lastEvent.from \in UsdSymbols(rates)
      /\ lastEvent.to \in UsdSymbols(rates)
      /\ lastEvent.from # lastEvent.to) => lastEvent.out.threw = "none"

\* what the handler does: a rejected event changes nothing, and the table
\* stays complete while no symbol holds a '-' and every price is a number
Conv_InvalidUpdateIgnored ==
  (lastEvent.type = "UPDATE_USD_PRICE" /\ InvalidUpdate(lastEvent.o))
    => rates = lastEvent.before /\ lastEvent.log = "Invalid update parameters."

Conv_CompleteWithoutDash ==
  (/\ NumericPrices(rates)
   /\ \A sym \in UsdSymbols(rates) : \A j \in 1..Len(sym) : sym[j] # DASH)
    => PairsComplete(rates)

====
